---- MODULE Spec2Model ----
(***************************************************************************)
(* A model of go-longpoll: the Manager's peer registry, the inbound        *)
(* handlers (handleGET / handlePOST), the direct and fan-out dispatch      *)
(* operations, the poll routine of server peers and the garbage collector. *)
(*                                                                         *)
(* Goroutines are modelled as tasks with a program counter.  A handler is  *)
(* cut only where the code releases the registry lock or blocks (a channel *)
(* operation, a timer, a network exchange); everything between two such    *)
(* points is one atomic step.  Go channel semantics are modelled as the    *)
(* runtime implements them: a send hands its value directly to a waiting   *)
(* receiver, a receive from a full buffer completes one blocked sender,    *)
(* close wakes every receiver with the zero value and makes every blocked  *)
(* sender panic.  Loop variables are per-iteration (Go >= 1.22).           *)
(***************************************************************************)
EXTENDS Integers, Sequences, FiniteSets, TLC

\* ------------------------------------------------------------------ bounds
NumIds == 2
NumTasks == 2
MaxPeers == 3
MaxMsgs == 3
MaxPollers == 2
MaxTime == 40
MaxTopics == 2
OutboundBufferSize == 2

\* ------------------------------------------------ program constants (seconds)
PollLength == 10
PeerExpiry == 30
Deadline == 20
GCInterval == 10

Ids == 1..NumIds
Tasks == 1..NumTasks
Slots == 1..MaxPeers
Keys == {"k"}
Topic == {"t", "u"}
ClientIP == "ip"

\* ------------------------------------------------------------------ values
\* A Go map[string]string: nil or not, and its entries ("" stands for absent).
NilMap == [isnil |-> TRUE, kv |-> [k \in Keys |-> ""]]
CallerMap == [isnil |-> FALSE, kv |-> [k \in Keys |-> "c"]]
StickyMap == [isnil |-> FALSE, kv |-> [k \in Keys |-> "s"]]

MapLen(m) == Cardinality({k \in Keys : m.kv[k] # ""})

\* The zero Message: what a receive from a closed channel yields.
Message(id, attrs) == [MessageID |-> id, Attributes |-> attrs]
NoMsg == Message(0, NilMap)

NilCh == [nil |-> TRUE, closed |-> FALSE, buf |-> <<>>]
MakeCh == [nil |-> FALSE, closed |-> FALSE, buf |-> <<>>]

\* A Peer object (the fields the operations read or write).
NewPeer(uuid, ip, ch, online, lastConsumed, isServer, sticky) ==
  [UUID |-> uuid, ipAddr |-> ip, Ch |-> ch, LastConsumed |-> lastConsumed,
   Topics |-> <<>>, StickyAttrbitues |-> sticky, IsServer |-> isServer,
   Online |-> online]

\* A slot of the heap that holds no reachable Peer.
Tomb == NewPeer(0, "", NilCh, FALSE, 0, FALSE, NilMap)

IdleTask == [op |-> "idle", pc |-> "idle", uuid |-> 0, peer |-> 0,
             msg |-> NoMsg, arg |-> NilMap, timer |-> 0, todo |-> {}, topic |-> ""]

NoEvent == [op |-> "init", id |-> 0, res |-> "", msg |-> NoMsg,
            cbs |-> <<>>, net |-> <<>>]

Event(op, id, res, msg, cbs, net) ==
  [op |-> op, id |-> id, res |-> res, msg |-> msg, cbs |-> cbs, net |-> net]

VARIABLES
  peers,      \* m.peers: identity -> Peer object (0: no entry)
  heap,       \* the Peer objects; a *Peer is a slot, collected when unreachable
  tasks,      \* request handlers and callers of the Manager's operations
  pollers,    \* the poll routines launched by AddServerPeer
  detached,   \* the detached enqueue goroutines launched by the fan-outs
  now,        \* time.Now(), in seconds
  nextMsg,    \* uuid.New(): the number of messages minted
  enqueued,   \* per Peer object, the messages that entered its channel, in order
  delivered,  \* per Peer object, the messages received from its channel, in order
  last        \* the outputs of the last step: result, callbacks launched, requests

vars == <<peers, heap, tasks, pollers, detached, now, nextMsg, enqueued, delivered, last>>

\* NewDefaultManager and Start: an empty registry, nothing running but the
\* garbage collector and the listener.
Init ==
  /\ peers = [i \in Ids |-> 0]
  /\ heap = [o \in Slots |-> Tomb]
  /\ tasks = [t \in Tasks |-> IdleTask]
  /\ pollers = <<>>
  /\ detached = {}
  /\ now = 0
  /\ nextMsg = 0
  /\ enqueued = [o \in Slots |-> <<>>]
  /\ delivered = [o \in Slots |-> <<>>]
  /\ last = NoEvent


\* --------------------------------------------------------------- helpers
Count(seq, e) == Cardinality({i \in DOMAIN seq : seq[i] = e})

Up(id) == <<"up", id, 0>>
Down(id) == <<"down", id, 0>>
Recv(id, m) == <<"recv", id, m.MessageID>>

\* A step that replies nothing, launches no callback and issues no request.
Silent == Event("step", 0, "", NoMsg, <<>>, <<>>)
Result(op, id, res) == Event(op, id, res, NoMsg, <<>>, <<>>)

\* A new call or request takes the first idle task (idle tasks are alike).
Starts(t) == tasks[t].op = "idle" /\ \A u \in Tasks : u < t => tasks[u].op # "idle"

\* The Peer objects some goroutine or the registry still refers to.
Live ==
  {peers[i] : i \in Ids} \cup {tasks[t].peer : t \in Tasks}
  \cup {pollers[p].peer : p \in DOMAIN pollers} \cup {d.peer : d \in detached}

\* The heap after a step: the objects no reference of the next state reaches
\* are collected (Go's garbage collector), and their history with them.
Finish(h, e, d) ==
  /\ heap' = [o \in Slots |-> IF o \in Live' THEN h[o] ELSE Tomb]
  /\ enqueued' = [o \in Slots |-> IF o \in Live' THEN e[o] ELSE <<>>]
  /\ delivered' = [o \in Slots |-> IF o \in Live' THEN d[o] ELSE <<>>]

Same == Finish(heap, enqueued, delivered)

\* A registry lock that a poll routine keeps through its request and its
\* sleep.
LockFree_Coarse ==
  /\ \A t \in Tasks : tasks[t].pc \notin {"loop", "pushing"}
  /\ \A p \in DOMAIN pollers : pollers[p].pc \notin {"request", "sleep"}

\* m.peersMU is held across steps only by a fan-out, for its whole loop; every
\* other critical section lies within one step.
LockFree == \A t \in Tasks : tasks[t].pc \notin {"loop", "pushing"}

\* Handlers that have found no entry and are about to store a new Peer.
Creating == {t \in Tasks : tasks[t].pc \in {"create", "store"}}

\* The bound on Peer objects: a registration starts only if its object can
\* still be allocated when it comes to store it.
CanAllocate == Cardinality(Live \ {0}) + Cardinality(Creating) < MaxPeers

Fresh == CHOOSE o \in Slots : o \notin Live /\ \A q \in Slots : q \notin Live => o <= q

\* for k, v := range peer.StickyAttrbitues { message.Attributes[k] = v }
\* writes into a nil map when the message has no attributes: a run-time panic.
StickyPanics(attrs, sticky) == MapLen(sticky) > 0 /\ attrs.isnil

ApplySticky(attrs, sticky) ==
  IF MapLen(sticky) = 0 THEN attrs
  ELSE [isnil |-> FALSE,
        kv |-> [k \in Keys |-> IF sticky.kv[k] # "" THEN sticky.kv[k] ELSE attrs.kv[k]]]

\* ------------------------------------------------------- Go channels
NoDet == [peer |-> 0, msg |-> NoMsg, pc |-> "", timer |-> 0, kind |-> ""]
NoSender == [task |-> 0, det |-> NoDet]

\* Goroutines suspended in a select on a receive from / a send to o's channel.
Receivers(o) ==
  {t \in Tasks : tasks[t].op = "GET" /\ tasks[t].pc = "waiting" /\ tasks[t].peer = o}

Senders(o) ==
  {[task |-> t, det |-> NoDet] :
      t \in {u \in Tasks : tasks[u].pc = "blocked" /\ tasks[u].peer = o}}
  \cup {[task |-> 0, det |-> d] :
      d \in {e \in detached : e.pc = "blocked" /\ e.peer = o}}

SenderChoices(o) == IF Senders(o) = {} THEN {NoSender} ELSE Senders(o)
ReceiverChoices(o) == IF Receivers(o) = {} THEN {0} ELSE Receivers(o)
SenderMsg(s) == IF s.task # 0 THEN tasks[s.task].msg ELSE s.det.msg
SenderSeq(s) == IF s = NoSender THEN <<>> ELSE <<SenderMsg(s)>>

\* A receive that took the newest buffered value instead of the oldest.
ChanHead_Newest(buf) == buf[Len(buf)]

\* The value a receive takes from a buffer.
ChanHead(buf) == Head(buf)

\* case msg := <-peer.Ch with a buffered value: the head is received and one
\* blocked sender (s), if any, is completed into the freed slot.  T is the
\* tasks with the receiver's own step taken.
ChanRecv(T, o, s) ==
  /\ tasks' = [t \in Tasks |-> IF t = s.task THEN [T[t] EXCEPT !.pc = "sent"] ELSE T[t]]
  /\ detached' = detached \ {s.det}
  /\ Finish([heap EXCEPT ![o].Ch.buf = Tail(@) \o SenderSeq(s)],
            [enqueued EXCEPT ![o] = @ \o SenderSeq(s)],
            [delivered EXCEPT ![o] = Append(@, ChanHead(heap[o].Ch.buf))])

\* case peer.Ch <- message is ready at once when a receiver is suspended on the
\* channel or the buffer has room.
CanSend(o) ==
  /\ ~heap[o].Ch.nil
  /\ ~heap[o].Ch.closed
  /\ Receivers(o) # {} \/ Len(heap[o].Ch.buf) < OutboundBufferSize

\* A send that hands the message to the suspended receiver and puts it into
\* the buffer as well.
ChanSend_Both(T, o, m, r) ==
  /\ tasks' = [t \in Tasks |-> IF t = r THEN [T[t] EXCEPT !.pc = "got", !.msg = m] ELSE T[t]]
  /\ Finish([heap EXCEPT ![o].Ch.buf = Append(@, m)],
            [enqueued EXCEPT ![o] = Append(@, m)],
            IF r # 0 THEN [delivered EXCEPT ![o] = Append(@, m)] ELSE delivered)

\* The send itself: handed to the suspended receiver r, or (r = 0) buffered.
\* T is the tasks with the sender's own step taken.
ChanSend(T, o, m, r) ==
  /\ tasks' = [t \in Tasks |-> IF t = r THEN [T[t] EXCEPT !.pc = "got", !.msg = m] ELSE T[t]]
  /\ Finish(IF r # 0 THEN heap ELSE [heap EXCEPT ![o].Ch.buf = Append(@, m)],
            [enqueued EXCEPT ![o] = Append(@, m)],
            IF r # 0 THEN [delivered EXCEPT ![o] = Append(@, m)] ELSE delivered)

\* close(peer.Ch) for the objects in S: every suspended receiver gets the zero
\* Message, every blocked sender panics.
CloseTasks(S) ==
  [t \in Tasks |->
     IF tasks[t].peer \in S /\ tasks[t].op = "GET" /\ tasks[t].pc = "waiting"
       THEN [tasks[t] EXCEPT !.pc = "got", !.msg = NoMsg]
     ELSE IF tasks[t].peer \in S /\ tasks[t].pc = "blocked"
       THEN [tasks[t] EXCEPT !.pc = "panic"]
     ELSE tasks[t]]

CloseDetached(S) ==
  {IF d.peer \in S /\ d.pc = "blocked" THEN [d EXCEPT !.pc = "panic"] ELSE d : d \in detached}

CloseHeap(S) ==
  [o \in Slots |-> IF o \in S THEN [heap[o] EXCEPT !.Ch.closed = TRUE] ELSE heap[o]]

\* m.peers[uuid] = newPeer, for a freshly allocated Peer: whatever entry the
\* identity has is overwritten.
Store(uuid, p) ==
  /\ peers' = [peers EXCEPT ![uuid] = Fresh]
  /\ Finish([heap EXCEPT ![Fresh] = p], enqueued, delivered)

\* ------------------------------------------------------- handleGET
\* The header check and the registry lookup under the read lock.
handleGET_Lookup(t, id) ==
  /\ Starts(t)
  /\ LockFree
  /\ UNCHANGED <<peers, pollers, detached, now, nextMsg>>
  /\ IF id = 0
       THEN /\ last' = Result("GET", id, "400")
            /\ UNCHANGED tasks
            /\ Same
     ELSE IF peers[id] = 0
       THEN /\ CanAllocate
            /\ tasks' = [tasks EXCEPT ![t] =
                           [IdleTask EXCEPT !.op = "GET", !.pc = "create", !.uuid = id]]
            /\ last' = Silent
            /\ Same
     ELSE   /\ tasks' = [tasks EXCEPT ![t] =
                           [IdleTask EXCEPT !.op = "GET", !.pc = "select", !.uuid = id,
                                            !.peer = peers[id]]]
            /\ last' = Silent
            /\ Finish([heap EXCEPT ![peers[id]].ipAddr = ClientIP], enqueued, delivered)

\* The peer was absent at the lookup: store a new Peer under the write lock,
\* launch the up callback, reply 201.
handleGET_Create(t) ==
  /\ LockFree
  /\ tasks[t].op = "GET" /\ tasks[t].pc = "create"
  /\ tasks' = [tasks EXCEPT ![t] = IdleTask]
  /\ last' = Event("GET", tasks[t].uuid, "201", NoMsg, <<Up(tasks[t].uuid)>>, <<>>)
  /\ UNCHANGED <<pollers, detached, now, nextMsg>>
  /\ Store(tasks[t].uuid, NewPeer(tasks[t].uuid, "", MakeCh, TRUE, now, FALSE, NilMap))

\* Entering the select: a buffered message (or the zero Message of a closed
\* channel) is received at once, otherwise the request suspends.
handleGET_Select(t) ==
  /\ tasks[t].op = "GET" /\ tasks[t].pc = "select"
  /\ last' = Silent
  /\ UNCHANGED <<peers, pollers, now, nextMsg>>
  /\ LET o == tasks[t].peer
         ch == heap[o].Ch
     IN IF ~ch.nil /\ Len(ch.buf) > 0
          THEN \E s \in SenderChoices(o) :
                 ChanRecv([tasks EXCEPT ![t].pc = "got", ![t].msg = ChanHead(ch.buf)], o, s)
        ELSE IF ~ch.nil /\ ch.closed
          THEN /\ tasks' = [tasks EXCEPT ![t].pc = "got", ![t].msg = NoMsg]
               /\ UNCHANGED detached
               /\ Same
        ELSE   /\ tasks' = [tasks EXCEPT ![t].pc = "waiting", ![t].timer = now + PollLength]
               /\ UNCHANGED detached
               /\ Same

\* case msg := <-peer.Ch: LastConsumed = now, reply 200 with the message.
handleGET_Reply(t) ==
  /\ tasks[t].op = "GET" /\ tasks[t].pc = "got"
  /\ tasks' = [tasks EXCEPT ![t] = IdleTask]
  /\ last' = Event("GET", tasks[t].uuid, "200", tasks[t].msg, <<>>, <<>>)
  /\ UNCHANGED <<peers, pollers, detached, now, nextMsg>>
  /\ Finish([heap EXCEPT ![tasks[t].peer].LastConsumed = now], enqueued, delivered)

\* case <-time.After(m.PollLength): LastConsumed = now, reply 204.
handleGET_Timeout(t) ==
  /\ tasks[t].op = "GET" /\ tasks[t].pc = "waiting"
  /\ now >= tasks[t].timer
  /\ tasks' = [tasks EXCEPT ![t] = IdleTask]
  /\ last' = Result("GET", tasks[t].uuid, "204")
  /\ UNCHANGED <<peers, pollers, detached, now, nextMsg>>
  /\ Finish([heap EXCEPT ![tasks[t].peer].LastConsumed = now], enqueued, delivered)

\* case <-c.Request.Context().Done(): return without a reply.
handleGET_Cancel(t) ==
  /\ tasks[t].op = "GET" /\ tasks[t].pc \in {"select", "waiting"}
  /\ tasks' = [tasks EXCEPT ![t] = IdleTask]
  /\ last' = Result("GET", tasks[t].uuid, "cancelled")
  /\ UNCHANGED <<peers, pollers, detached, now, nextMsg>>
  /\ Same

\* ------------------------------------------------------- handlePOST
\* The message a remote peer pushes or returns to a poll.
WireMsg == Message(0, CallerMap)

\* A handler that launches the receive callback whether the body parses or not.
PostBody_Always(id, parses, m) ==
  Event("POST", id, IF parses THEN "200" ELSE "400", m, <<Recv(id, m)>>, <<>>)

\* The body read and parsed, the receive callback launched, the reply.
PostBody(id, parses, m) ==
  IF parses
    THEN Event("POST", id, "200", m, <<Recv(id, m)>>, <<>>)
    ELSE Result("POST", id, "400")

\* The header check and the registry lookup; for a registered peer the rest
\* of the handler touches no shared state.
handlePOST_Lookup(t, id, parses) ==
  /\ Starts(t)
  /\ LockFree
  /\ UNCHANGED <<peers, pollers, detached, now, nextMsg>>
  /\ IF id = 0
       THEN /\ last' = Result("POST", id, "400")
            /\ UNCHANGED tasks
     ELSE IF peers[id] = 0
       THEN /\ CanAllocate
            /\ tasks' = [tasks EXCEPT ![t] =
                           [IdleTask EXCEPT !.op = "POST", !.pc = "create", !.uuid = id]]
            /\ last' = Silent
     ELSE   /\ last' = PostBody(id, parses, WireMsg)
            /\ UNCHANGED tasks
  /\ Same

\* The peer was absent at the lookup: store a new Peer, launch the up
\* callback, then go on with the body.
handlePOST_Create(t, parses) ==
  /\ LockFree
  /\ tasks[t].op = "POST" /\ tasks[t].pc = "create"
  /\ tasks' = [tasks EXCEPT ![t] = IdleTask]
  /\ LET body == PostBody(tasks[t].uuid, parses, WireMsg)
     IN last' = [body EXCEPT !.cbs = <<Up(tasks[t].uuid)>> \o @]
  /\ UNCHANGED <<pollers, detached, now, nextMsg>>
  /\ Store(tasks[t].uuid, NewPeer(tasks[t].uuid, ClientIP, MakeCh, TRUE, now, FALSE, NilMap))

\* ------------------------------------------------------- AddServerPeer
NoPoller == [uuid |-> 0, pc |-> "top", peer |-> 0, want |-> FALSE, seen |-> FALSE,
             err |-> FALSE, timer |-> 0]

\* Poll routines not yet launched by a caller that passed the existence check.
Storing == {t \in Tasks : tasks[t].pc = "store"}

\* The argument checks and PeerExists, which takes and releases the read lock.
AddServerPeer_Check(t, id, urlGiven, sticky) ==
  /\ Starts(t)
  /\ LockFree
  /\ UNCHANGED <<peers, pollers, detached, now, nextMsg>>
  /\ IF id = 0
       THEN /\ last' = Result("AddServerPeer", id, "uuid is required")
            /\ UNCHANGED tasks
     ELSE IF ~urlGiven
       THEN /\ last' = Result("AddServerPeer", id, "server URL is required")
            /\ UNCHANGED tasks
     ELSE IF peers[id] # 0
       THEN /\ last' = Result("AddServerPeer", id, "peer already exists")
            /\ UNCHANGED tasks
     ELSE   /\ CanAllocate
            /\ Len(pollers) + Cardinality(Storing) < MaxPollers
            /\ tasks' = [tasks EXCEPT ![t] =
                           [IdleTask EXCEPT !.op = "AddServerPeer", !.pc = "store",
                                            !.uuid = id, !.arg = sticky]]
            /\ last' = Silent
  /\ Same

\* The Peer stored under the write lock and its poll routine launched.
AddServerPeer_Store(t) ==
  /\ LockFree
  /\ tasks[t].op = "AddServerPeer" /\ tasks[t].pc = "store"
  /\ pollers' = Append(pollers, [NoPoller EXCEPT !.uuid = tasks[t].uuid])
  /\ tasks' = [tasks EXCEPT ![t] = IdleTask]
  /\ last' = Result("AddServerPeer", tasks[t].uuid, "ok")
  /\ UNCHANGED <<detached, now, nextMsg>>
  /\ Store(tasks[t].uuid, NewPeer(tasks[t].uuid, "", NilCh, FALSE, 0, TRUE, tasks[t].arg))

\* ------------------------------------------------------- the poll routine
PollOutcomes == {"badurl", "transport", "200", "200bad", "201", "204", "other"}

\* The top of the loop: the registry is read again; the routine quits when
\* the identity has no entry, otherwise it polls whatever Peer the entry holds.
poll_Lookup(p) ==
  /\ LockFree
  /\ pollers[p].pc = "top"
  /\ pollers' = [pollers EXCEPT ![p] =
                   IF peers[pollers[p].uuid] = 0 THEN [@ EXCEPT !.pc = "exited"]
                   ELSE [@ EXCEPT !.pc = "request", !.peer = peers[pollers[p].uuid]]]
  /\ last' = Silent
  /\ UNCHANGED <<peers, tasks, detached, now, nextMsg>>
  /\ Same

\* Peer.poll up to its markOnline / markOffline call, whose test of p.Online
\* is read here.  A 200 whose body cannot be read or parsed returns the error
\* without marking.  A client Peer has no ServerURL: no request goes out and
\* the poll fails.
poll_Response(p, outcome) ==
  /\ pollers[p].pc = "request"
  /\ heap[pollers[p].peer].IsServer \/ outcome = "badurl"
  /\ LET o == pollers[p].peer
         req == IF outcome = "badurl" THEN <<>> ELSE <<[kind |-> "GET", peer |-> o, msg |-> NoMsg]>>
     IN /\ pollers' = [pollers EXCEPT ![p] =
                         IF outcome = "200bad"
                           THEN [@ EXCEPT !.pc = "sleep", !.peer = 0, !.timer = now + PollLength]
                           ELSE [@ EXCEPT !.pc = "mark",
                                          !.want = outcome \in {"200", "201", "204"},
                                          !.seen = heap[o].Online,
                                          !.err = outcome \notin {"200", "201", "204"}]]
        /\ last' = Event("poll", pollers[p].uuid, outcome,
                         IF outcome = "200" THEN WireMsg ELSE NoMsg,
                         IF outcome = "200" THEN <<Recv(heap[o].UUID, WireMsg)>> ELSE <<>>, req)
  /\ UNCHANGED <<peers, tasks, detached, now, nextMsg>>
  /\ Same

\* markOnline / markOffline after the test: the flag written and the callback
\* launched when the test saw the other value; then the routine sleeps
\* PollLength after an error.
poll_Mark(p) ==
  /\ pollers[p].pc = "mark"
  /\ LET o == pollers[p].peer
         flip == pollers[p].seen # pollers[p].want
     IN /\ last' = Event(IF pollers[p].want THEN "markOnline" ELSE "markOffline",
                         pollers[p].uuid, "", NoMsg,
                         IF ~flip THEN <<>>
                         ELSE IF pollers[p].want THEN <<Up(heap[o].UUID)>>
                         ELSE <<Down(heap[o].UUID)>>, <<>>)
        /\ pollers' = [pollers EXCEPT ![p] =
                         IF @.err
                           THEN [NoPoller EXCEPT !.uuid = pollers[p].uuid, !.pc = "sleep",
                                                 !.timer = now + PollLength]
                           ELSE [NoPoller EXCEPT !.uuid = pollers[p].uuid]]
        /\ UNCHANGED <<peers, tasks, detached, now, nextMsg>>
        /\ Finish(IF flip THEN [heap EXCEPT ![o].Online = pollers[p].want] ELSE heap,
                  enqueued, delivered)

\* time.Sleep(m.PollLength) over.
poll_Wake(p) ==
  /\ pollers[p].pc = "sleep"
  /\ now >= pollers[p].timer
  /\ pollers' = [pollers EXCEPT ![p] = [NoPoller EXCEPT !.uuid = pollers[p].uuid]]
  /\ last' = Silent
  /\ UNCHANGED <<peers, tasks, detached, now, nextMsg>>
  /\ Same

\* ------------------------------------------------------- DeletePeer
\* A DeletePeer that closes the channel and leaves the entry in the registry.
DeletePeer_KeepsEntry(id) ==
  /\ LockFree
  /\ UNCHANGED <<pollers, now, nextMsg>>
  /\ IF peers[id] = 0
       THEN /\ last' = Result("DeletePeer", id, "peer not found")
            /\ UNCHANGED <<peers, tasks, detached>>
            /\ Same
     ELSE LET S == IF heap[peers[id]].Ch.nil THEN {} ELSE {peers[id]}
          IN /\ peers' = peers
             /\ tasks' = CloseTasks(S)
             /\ detached' = CloseDetached(S)
             /\ last' = Result("DeletePeer", id, "ok")
             /\ Finish(CloseHeap(S), enqueued, delivered)

DeletePeer(id) ==
  /\ LockFree
  /\ UNCHANGED <<pollers, now, nextMsg>>
  /\ IF peers[id] = 0
       THEN /\ last' = Result("DeletePeer", id, "peer not found")
            /\ UNCHANGED <<peers, tasks, detached>>
            /\ Same
     ELSE IF ~heap[peers[id]].Ch.nil /\ heap[peers[id]].Ch.closed
       THEN /\ last' = Result("DeletePeer", id, "panic")
            /\ UNCHANGED <<peers, tasks, detached>>
            /\ Same
     ELSE LET S == IF heap[peers[id]].Ch.nil THEN {} ELSE {peers[id]}
          IN /\ peers' = [peers EXCEPT ![id] = 0]
             /\ tasks' = CloseTasks(S)
             /\ detached' = CloseDetached(S)
             /\ last' = Result("DeletePeer", id, "ok")
             /\ Finish(CloseHeap(S), enqueued, delivered)

\* ------------------------------------------------------- topics, address, sticky attributes
RECURSIVE RemoveFirst(_, _)
\* for i, t := range topics { if t == topic { remove index i; break } }
RemoveFirst(topics, topic) ==
  IF topics = <<>> THEN <<>>
  ELSE IF Head(topics) = topic THEN Tail(topics)
  ELSE <<Head(topics)>> \o RemoveFirst(Tail(topics), topic)

TopicLists == UNION {[1..n -> Topic] : n \in 0..MaxTopics}

\* An operation that reports success for an absent peer.
Locked_Lenient(op, id, h) ==
  /\ LockFree
  /\ UNCHANGED <<peers, tasks, pollers, detached, now, nextMsg>>
  /\ last' = Result(op, id, "ok")
  /\ IF peers[id] = 0 THEN Same ELSE Finish(h, enqueued, delivered)

\* An operation that looks the peer up under the lock, fails when it is
\* absent and otherwise leaves the Peer as h.
Locked(op, id, h) ==
  /\ LockFree
  /\ UNCHANGED <<peers, tasks, pollers, detached, now, nextMsg>>
  /\ IF peers[id] = 0
       THEN /\ last' = Result(op, id, "peer not found")
            /\ Same
       ELSE /\ last' = Result(op, id, "ok")
            /\ Finish(h, enqueued, delivered)

AddTopic(id, topic) ==
  /\ peers[id] # 0 => Len(heap[peers[id]].Topics) < MaxTopics
  /\ Locked("AddTopic", id, [heap EXCEPT ![peers[id]].Topics = Append(@, topic)])

RemoveTopic(id, topic) ==
  Locked("RemoveTopic", id, [heap EXCEPT ![peers[id]].Topics = RemoveFirst(@, topic)])

GetTopics(id) == Locked("GetTopics", id, heap)

SetTopics(id, topics) == Locked("SetTopics", id, [heap EXCEPT ![peers[id]].Topics = topics])

GetPeerIP(id) == Locked("GetPeerIP", id, heap)

SetPeerStickyAttributes(id, attributes) ==
  Locked("SetPeerStickyAttributes", id, [heap EXCEPT ![peers[id]].StickyAttrbitues = attributes])

\* ------------------------------------------------------- Send, Forward
\* Send: the payload marshalled, the Message minted, the peer looked up under
\* the read lock.
Send_Lookup(t, id, marshals, attributes) ==
  /\ Starts(t)
  /\ LockFree
  /\ UNCHANGED <<peers, pollers, detached, now>>
  /\ IF ~marshals
       THEN /\ last' = Result("Send", id, "error marshalling data")
            /\ UNCHANGED <<tasks, nextMsg>>
     ELSE IF peers[id] = 0
       THEN /\ last' = Result("Send", id, "peer not found")
            /\ UNCHANGED <<tasks, nextMsg>>
     ELSE   /\ nextMsg < MaxMsgs
            /\ nextMsg' = nextMsg + 1
            /\ tasks' = [tasks EXCEPT ![t] =
                           [IdleTask EXCEPT !.op = "Send", !.pc = "dispatch", !.uuid = id,
                                            !.peer = peers[id],
                                            !.msg = Message(nextMsg + 1, attributes)]]
            /\ last' = Silent
  /\ Same

\* Forward: the peer looked up under the read lock, for a Message built
\* elsewhere.
Forward_Lookup(t, id, attributes) ==
  /\ Starts(t)
  /\ LockFree
  /\ UNCHANGED <<peers, pollers, detached, now>>
  /\ IF peers[id] = 0
       THEN /\ last' = Result("Forward", id, "peer not found")
            /\ UNCHANGED <<tasks, nextMsg>>
     ELSE   /\ nextMsg < MaxMsgs
            /\ nextMsg' = nextMsg + 1
            /\ tasks' = [tasks EXCEPT ![t] =
                           [IdleTask EXCEPT !.op = "Forward", !.pc = "dispatch", !.uuid = id,
                                            !.peer = peers[id],
                                            !.msg = Message(nextMsg + 1, attributes)]]
            /\ last' = Silent
  /\ Same

\* The rest of Send and Forward, on the Peer found (no lock held): the sticky
\* attributes written into the message's attributes, then a push to a server
\* peer or the select on the channel send.
dispatch(t) ==
  /\ tasks[t].op \in {"Send", "Forward"} /\ tasks[t].pc = "dispatch"
  /\ UNCHANGED <<peers, pollers, now, nextMsg>>
  /\ LET o == tasks[t].peer
         op == tasks[t].op
         id == tasks[t].uuid
         m == [tasks[t].msg EXCEPT !.Attributes = ApplySticky(@, heap[o].StickyAttrbitues)]
         done == [tasks EXCEPT ![t] = IdleTask]
     IN IF StickyPanics(tasks[t].msg.Attributes, heap[o].StickyAttrbitues)
          THEN /\ last' = Result(op, id, "panic")
               /\ tasks' = done
               /\ UNCHANGED detached
               /\ Same
        ELSE IF heap[o].IsServer
          THEN /\ last' = Event(op, id, "", NoMsg, <<>>,
                                <<[kind |-> "POST", peer |-> o, msg |-> m]>>)
               /\ tasks' = [tasks EXCEPT ![t].pc = "posting", ![t].msg = m]
               /\ UNCHANGED detached
               /\ Same
        ELSE IF heap[o].Ch.closed
          THEN /\ last' = Result(op, id, "panic")
               /\ tasks' = done
               /\ UNCHANGED detached
               /\ Same
        ELSE IF CanSend(o)
          THEN /\ last' = Event(op, id, "ok", m, <<>>, <<>>)
               /\ UNCHANGED detached
               /\ \E r \in ReceiverChoices(o) : ChanSend(done, o, m, r)
        ELSE   /\ last' = Silent
               /\ tasks' = [tasks EXCEPT ![t].pc = "blocked", ![t].msg = m,
                                         ![t].timer = now + Deadline]
               /\ UNCHANGED detached
               /\ Same

\* The push request of a server peer answered: success on status 200 only.
dispatch_Posted(t, ok) ==
  /\ tasks[t].pc = "posting"
  /\ tasks' = [tasks EXCEPT ![t] = IdleTask]
  /\ last' = Event(tasks[t].op, tasks[t].uuid, IF ok THEN "ok" ELSE "push failed",
                   tasks[t].msg, <<>>, <<>>)
  /\ UNCHANGED <<peers, pollers, detached, now, nextMsg>>
  /\ Same

\* case peer.Ch <- message, completed by a receiver while the sender was blocked.
dispatch_Sent(t) ==
  /\ tasks[t].pc = "sent"
  /\ tasks' = [tasks EXCEPT ![t] = IdleTask]
  /\ last' = Event(tasks[t].op, tasks[t].uuid, "ok", tasks[t].msg, <<>>, <<>>)
  /\ UNCHANGED <<peers, pollers, detached, now, nextMsg>>
  /\ Same

\* case <-time.After(m.Deadline)
dispatch_Timeout(t) ==
  /\ tasks[t].pc = "blocked"
  /\ now >= tasks[t].timer
  /\ tasks' = [tasks EXCEPT ![t] = IdleTask]
  /\ last' = Event(tasks[t].op, tasks[t].uuid, "deadline exceeded", tasks[t].msg, <<>>, <<>>)
  /\ UNCHANGED <<peers, pollers, detached, now, nextMsg>>
  /\ Same

\* The channel was closed while the sender was blocked on it.
dispatch_Panic(t) ==
  /\ tasks[t].pc = "panic"
  /\ tasks' = [tasks EXCEPT ![t] = IdleTask]
  /\ last' = Event(tasks[t].op, tasks[t].uuid, "panic", tasks[t].msg, <<>>, <<>>)
  /\ UNCHANGED <<peers, pollers, detached, now, nextMsg>>
  /\ Same

\* ------------------------------------------------------- garbageCollectPeers
\* A collector that evicts a peer as soon as its idle time reaches PeerExpiry.
Expired_AtExpiry ==
  {id \in Ids : /\ peers[id] # 0
                /\ ~heap[peers[id]].IsServer
                /\ now - heap[peers[id]].LastConsumed >= PeerExpiry}

\* A collector that does not skip server peers.
Expired_Servers ==
  {id \in Ids : /\ peers[id] # 0
                /\ now - heap[peers[id]].LastConsumed > PeerExpiry}

Expired ==
  {id \in Ids : /\ peers[id] # 0
                /\ ~heap[peers[id]].IsServer
                /\ now - heap[peers[id]].LastConsumed > PeerExpiry}

RECURSIVE DownSeq(_)
DownSeq(S) ==
  IF S = {} THEN <<>>
  ELSE LET id == CHOOSE i \in S : \A j \in S : i <= j
       IN <<Down(heap[peers[id]].UUID)>> \o DownSeq(S \ {id})

\* One pass, under the write lock: every expired client peer gets its down
\* callback launched, its channel closed and its entry deleted.
\* A collector that closes the channels of the expired peers and leaves their
\* entries in the registry.
garbageCollectPeers_KeepsEntry ==
  /\ LockFree
  /\ peers' = peers
  /\ tasks' = CloseTasks({peers[id] : id \in Expired})
  /\ detached' = CloseDetached({peers[id] : id \in Expired})
  /\ last' = Event("gc", 0, "", NoMsg, DownSeq(Expired), <<>>)
  /\ UNCHANGED <<pollers, now, nextMsg>>
  /\ Finish(CloseHeap({peers[id] : id \in Expired}), enqueued, delivered)

garbageCollectPeers ==
  /\ LockFree
  /\ peers' = [id \in Ids |-> IF id \in Expired THEN 0 ELSE peers[id]]
  /\ tasks' = CloseTasks({peers[id] : id \in Expired})
  /\ detached' = CloseDetached({peers[id] : id \in Expired})
  /\ last' = Event("gc", 0, "", NoMsg, DownSeq(Expired), <<>>)
  /\ UNCHANGED <<pollers, now, nextMsg>>
  /\ Finish(CloseHeap({peers[id] : id \in Expired}), enqueued, delivered)

\* ------------------------------------------------------- FanOut, FanOutSubscribers
\* The payload marshalled and the write lock taken, held until the call
\* returns; the loop ranges over the entries the registry holds.
FanBegin(t, op, marshals, attributes, topic) ==
  /\ Starts(t)
  /\ LockFree
  /\ UNCHANGED <<peers, pollers, detached, now, nextMsg>>
  /\ IF ~marshals
       THEN /\ last' = Result(op, 0, "error marshalling data")
            /\ UNCHANGED tasks
       ELSE /\ last' = Silent
            /\ tasks' = [tasks EXCEPT ![t] =
                           [IdleTask EXCEPT !.op = op, !.pc = "loop", !.arg = attributes,
                                            !.topic = topic,
                                            !.todo = {id \in Ids : peers[id] # 0}]]
  /\ Same

\* One iteration of the loop, for the entry id (range over a map: any order).
\* An offline peer is skipped.  Otherwise the message takes the caller's map
\* as its attributes and the peer's sticky attributes are written into that
\* map; then, if the peer is selected, a server peer is pushed to (the lock
\* still held) and a client peer gets a detached goroutine for the enqueue.
FanIter(t, id, selected, kind) ==
  /\ tasks[t].pc = "loop"
  /\ id \in tasks[t].todo
  /\ UNCHANGED <<peers, pollers, now>>
  /\ LET o == peers[id]
         attrs == ApplySticky(tasks[t].arg, heap[o].StickyAttrbitues)
         m == Message(nextMsg + 1, attrs)
         rest == [tasks[t] EXCEPT !.todo = @ \ {id}, !.arg = attrs]
     IN IF ~heap[o].Online
          THEN /\ tasks' = [tasks EXCEPT ![t].todo = @ \ {id}]
               /\ last' = Silent
               /\ UNCHANGED <<detached, nextMsg>>
        ELSE IF StickyPanics(tasks[t].arg, heap[o].StickyAttrbitues)
          THEN /\ tasks' = [tasks EXCEPT ![t] = IdleTask]
               /\ last' = Result(kind, id, "panic")
               /\ UNCHANGED <<detached, nextMsg>>
        ELSE IF ~selected
          THEN /\ tasks' = [tasks EXCEPT ![t] = rest]
               /\ last' = Silent
               /\ UNCHANGED <<detached, nextMsg>>
        ELSE IF heap[o].IsServer
          THEN /\ nextMsg < MaxMsgs
               /\ nextMsg' = nextMsg + 1
               /\ tasks' = [tasks EXCEPT ![t] = [rest EXCEPT !.pc = "pushing"]]
               /\ last' = Event(kind, id, "", m, <<>>,
                                <<[kind |-> "POST", peer |-> o, msg |-> m]>>)
               /\ UNCHANGED detached
        ELSE   /\ nextMsg < MaxMsgs
               /\ nextMsg' = nextMsg + 1
               /\ tasks' = [tasks EXCEPT ![t] = rest]
               /\ detached' = detached \cup
                    {[peer |-> o, msg |-> m, pc |-> "start", timer |-> 0, kind |-> kind]}
               /\ last' = Event(kind, id, "go", m, <<>>, <<>>)
  /\ Same

\* pollPOST returned: its error is logged and the loop goes on.
FanPushed(t) ==
  /\ tasks[t].pc = "pushing"
  /\ tasks' = [tasks EXCEPT ![t].pc = "loop"]
  /\ last' = Silent
  /\ UNCHANGED <<peers, pollers, detached, now, nextMsg>>
  /\ Same

\* The loop is over: the lock is released, the call returns nil.
FanEnd(t) ==
  /\ tasks[t].pc = "loop"
  /\ tasks[t].todo = {}
  /\ tasks' = [tasks EXCEPT ![t] = IdleTask]
  /\ last' = Result(tasks[t].op, 0, "ok")
  /\ UNCHANGED <<peers, pollers, detached, now, nextMsg>>
  /\ Same

FanOut_Begin(t, marshals, attributes) == FanBegin(t, "FanOut", marshals, attributes, "")

FanOut_Iter(t, id) ==
  /\ tasks[t].op = "FanOut"
  /\ FanIter(t, id, TRUE, "FanOut")

FanOutSubscribers_Begin(t, marshals, attributes, topic) ==
  FanBegin(t, "FanOutSubscribers", marshals, attributes, topic)

\* for _, t := range peer.Topics { if t == topic { ...; break } }
Subscribed(topics, topic) == \E i \in DOMAIN topics : topics[i] = topic

FanOutSubscribers_Iter(t, id) ==
  /\ tasks[t].op = "FanOutSubscribers"
  /\ FanIter(t, id, Subscribed(heap[peers[id]].Topics, tasks[t].topic), "FanOutSubscribers")

\* ------------------------------------------------------- detached enqueues
\* The goroutine a fan-out launched reaches its select.  FanOut's select has a
\* default case: a send that cannot proceed at once is given up.
\* FanOutSubscribers' has none: the send blocks up to Deadline.
detached_Select(d) ==
  /\ d \in detached
  /\ d.pc = "start"
  /\ UNCHANGED <<peers, pollers, now, nextMsg>>
  /\ LET o == d.peer
     IN IF heap[o].Ch.closed
          THEN /\ last' = Event("detached", heap[o].UUID, "panic", d.msg, <<>>, <<>>)
               /\ detached' = detached \ {d}
               /\ UNCHANGED tasks
               /\ Same
        ELSE IF CanSend(o)
          THEN /\ last' = Event("detached", heap[o].UUID, "sent", d.msg, <<>>, <<>>)
               /\ detached' = detached \ {d}
               /\ \E r \in ReceiverChoices(o) : ChanSend(tasks, o, d.msg, r)
        ELSE IF d.kind = "FanOut"
          THEN /\ last' = Event("detached", heap[o].UUID, "default", d.msg, <<>>, <<>>)
               /\ detached' = detached \ {d}
               /\ UNCHANGED tasks
               /\ Same
        ELSE   /\ last' = Silent
               /\ detached' = (detached \ {d}) \cup
                                {[d EXCEPT !.pc = "blocked", !.timer = now + Deadline]}
               /\ UNCHANGED tasks
               /\ Same

\* case <-time.After(m.Deadline)
detached_Timeout(d) ==
  /\ d \in detached
  /\ d.pc = "blocked"
  /\ now >= d.timer
  /\ last' = Event("detached", heap[d.peer].UUID, "deadline exceeded", d.msg, <<>>, <<>>)
  /\ detached' = detached \ {d}
  /\ UNCHANGED <<peers, tasks, pollers, now, nextMsg>>
  /\ Same

\* The channel was closed while the goroutine was blocked on the send.
detached_Panic(d) ==
  /\ d \in detached
  /\ d.pc = "panic"
  /\ last' = Event("detached", heap[d.peer].UUID, "panic", d.msg, <<>>, <<>>)
  /\ detached' = detached \ {d}
  /\ UNCHANGED <<peers, tasks, pollers, now, nextMsg>>
  /\ Same

\* ------------------------------------------------------- time
\* Time passes; a timer that is due fires before time passes again.
TimersDue ==
  \/ \E t \in Tasks : tasks[t].pc \in {"waiting", "blocked"} /\ now >= tasks[t].timer
  \/ \E d \in detached : d.pc = "blocked" /\ now >= d.timer
  \/ \E p \in DOMAIN pollers : pollers[p].pc = "sleep" /\ now >= pollers[p].timer

\* Time passes by the collector's period, up to a horizon.
Advance(horizon) ==
  /\ now + GCInterval <= horizon
  /\ ~TimersDue
  /\ now' = now + GCInterval
  /\ last' = Silent
  /\ UNCHANGED <<peers, tasks, pollers, detached, nextMsg>>
  /\ Same

Tick == Advance(MaxTime)

\* ------------------------------------------------------- specifications
\* Identities are interchangeable and what happens to one peer's entry, queue
\* and flag does not depend on the other peers: the specifications of a
\* single peer exercise one identity.
OneId == {CHOOSE id \in Ids : TRUE}

\* The other identities.
Ghosts == Ids \ OneId

\* One of the other identities.
OneGhost == {CHOOSE id \in Ghosts : TRUE}

\* Calls of Send and Forward that have not returned.
Sending == {t \in Tasks : tasks[t].op \in {"Send", "Forward"}}

\* Registration: requests and calls that create or remove registry entries.
NextReg ==
  \/ \E t \in Tasks, id \in OneId : handleGET_Lookup(t, id)
  \/ \E t \in Tasks : handleGET_Create(t)
  \/ \E t \in Tasks : handleGET_Select(t)
  \/ \E t \in Tasks : handleGET_Cancel(t)
  \/ \E t \in Tasks, id \in OneId, parses \in BOOLEAN : handlePOST_Lookup(t, id, parses)
  \/ \E t \in Tasks, parses \in BOOLEAN : handlePOST_Create(t, parses)
  \/ \E t \in Tasks, id \in OneId, urlGiven \in BOOLEAN, sticky \in {NilMap, StickyMap} :
       AddServerPeer_Check(t, id, urlGiven, sticky)
  \/ \E t \in Tasks : AddServerPeer_Store(t)
  \/ \E id \in OneId : DeletePeer(id)

SpecReg == Init /\ [][NextReg]_vars


\* Delivery queues: polls and direct sends on one peer.
NextFifo ==
  \/ \E t \in Tasks, id \in OneId : handleGET_Lookup(t, id)
  \/ \E t \in Tasks : handleGET_Create(t)
  \/ \E t \in Tasks : handleGET_Select(t)
  \/ \E t \in Tasks : handleGET_Reply(t)
  \/ \E t \in Tasks : handleGET_Cancel(t)
  \/ \E t \in Tasks, id \in OneId : Send_Lookup(t, id, TRUE, CallerMap)
  \/ \E t \in Tasks, id \in OneId : Forward_Lookup(t, id, CallerMap)
  \/ \E t \in Tasks : dispatch(t)
  \/ \E t \in Tasks : dispatch_Sent(t)

SpecFifo == Init /\ [][NextFifo]_vars

\* Expiry: polls, the garbage collector and the passing of time.
NextGC ==
  \/ \E t \in Tasks, id \in OneId : handleGET_Lookup(t, id)
  \/ \E t \in Tasks : handleGET_Create(t)
  \/ \E t \in Tasks : handleGET_Select(t)
  \/ \E t \in Tasks : handleGET_Reply(t)
  \/ \E t \in Tasks : handleGET_Timeout(t)
  \/ garbageCollectPeers
  \/ Tick

SpecGC == Init /\ [][NextGC]_vars

\* Direct operations: pushes register a client peer; the operations on the
\* registry are called with every identity, registered or not, and messages
\* are addressed to the identities that never register.
NextOps ==
  \/ \E t \in Tasks, id \in OneId : handlePOST_Lookup(t, id, TRUE)
  \/ \E t \in Tasks : handlePOST_Create(t, TRUE)
  \/ \E t \in Tasks, id \in Ghosts : Send_Lookup(t, id, TRUE, CallerMap)
  \/ \E t \in Tasks, id \in Ghosts : Forward_Lookup(t, id, CallerMap)
  \/ \E id \in Ids : DeletePeer(id)
  \/ \E id \in Ids, topic \in Topic : AddTopic(id, topic)
  \/ \E id \in Ids, topic \in Topic : RemoveTopic(id, topic)
  \/ \E id \in Ids : GetTopics(id)
  \/ \E id \in Ids, topics \in TopicLists : SetTopics(id, topics)
  \/ \E id \in Ids : GetPeerIP(id)
  \/ \E id \in Ids, attributes \in {NilMap, StickyMap} : SetPeerStickyAttributes(id, attributes)

SpecOps == Init /\ [][NextOps]_vars

\* Fan-out to all peers: a client registers by a push under one identity,
\* server peers are added under the others and go online and offline with
\* their polls.
NextFan ==
  \/ \E t \in Tasks, id \in OneId : handlePOST_Lookup(t, id, TRUE)
  \/ \E t \in Tasks : handlePOST_Create(t, TRUE)
  \/ \E t \in Tasks, id \in Ghosts : AddServerPeer_Check(t, id, TRUE, NilMap)
  \/ \E t \in Tasks : AddServerPeer_Store(t)
  \/ \E p \in DOMAIN pollers : poll_Lookup(p)
  \/ \E p \in DOMAIN pollers, outcome \in {"204", "transport"} : poll_Response(p, outcome)
  \/ \E p \in DOMAIN pollers : poll_Mark(p)
  \/ \E t \in Tasks : FanOut_Begin(t, TRUE, CallerMap)
  \/ \E t \in Tasks, id \in Ids : FanOut_Iter(t, id)
  \/ \E t \in Tasks : FanPushed(t)
  \/ \E t \in Tasks : FanEnd(t)
  \/ \E d \in detached : detached_Select(d)

SpecFan == Init /\ [][NextFan]_vars

\* Fan-out to the subscribers of a topic: clients register by a push, take
\* topics and sticky attributes, and are fanned out to.
NextTopic ==
  \/ \E t \in Tasks, id \in Ids : handlePOST_Lookup(t, id, TRUE)
  \/ \E t \in Tasks : handlePOST_Create(t, TRUE)
  \/ \E id \in Ids : AddTopic(id, "t")
  \/ \E id \in OneId : SetPeerStickyAttributes(id, StickyMap)
  \/ \E t \in Tasks : FanOutSubscribers_Begin(t, TRUE, NilMap, "t")
  \/ \E t \in Tasks, id \in Ids : FanOutSubscribers_Iter(t, id)
  \/ \E t \in Tasks : FanEnd(t)
  \/ \E d \in detached : detached_Select(d)

SpecTopic == Init /\ [][NextTopic]_vars

\* Hand-off: one client peer, with sticky attributes or none, is polled and
\* sent to.
NextHandoff ==
  \/ \E t \in Tasks, id \in OneId : handleGET_Lookup(t, id)
  \/ \E t \in Tasks : handleGET_Create(t)
  \/ \E t \in Tasks : handleGET_Select(t)
  \/ \E t \in Tasks : handleGET_Reply(t)
  \/ \E t \in Tasks : handleGET_Cancel(t)
  \/ \E t \in Tasks, id \in OneId, marshals \in BOOLEAN : Send_Lookup(t, id, marshals, NilMap)
  \/ \E t \in Tasks : dispatch(t)
  \/ \E t \in Tasks : dispatch_Sent(t)
  \/ \E id \in OneId : SetPeerStickyAttributes(id, StickyMap)

SpecHandoff == Init /\ [][NextHandoff]_vars

\* Full queues: one client peer is polled, sent and forwarded to beyond its
\* capacity, and removed, while time runs up to the deadline of the first
\* sends.
NextDeadline ==
  \/ \E t \in Tasks, id \in OneId : handleGET_Lookup(t, id)
  \/ \E t \in Tasks : handleGET_Create(t)
  \/ \E t \in Tasks : handleGET_Select(t)
  \/ \E t \in Tasks : handleGET_Reply(t)
  \/ \E t \in Tasks : handleGET_Timeout(t)
  \/ \E t \in Tasks, id \in OneId : Send_Lookup(t, id, TRUE, CallerMap)
  \/ \E t \in Tasks, id \in OneId : Forward_Lookup(t, id, CallerMap)
  \/ \E t \in Tasks : dispatch(t)
  \/ \E t \in Tasks : dispatch_Sent(t)
  \/ \E t \in Tasks : dispatch_Timeout(t)
  \/ \E t \in Tasks : dispatch_Panic(t)
  \/ \E id \in OneId : DeletePeer(id)
  \/ Advance(Deadline)

SpecDeadline == Init /\ [][NextDeadline]_vars

\* Poll routines: a server peer is added, removed and added again under one
\* identity while its polls succeed and fail and the retry delay passes.
NextPoll ==
  \/ \E t \in Tasks, id \in OneId : AddServerPeer_Check(t, id, TRUE, NilMap)
  \/ \E t \in Tasks : AddServerPeer_Store(t)
  \/ \E p \in DOMAIN pollers : poll_Lookup(p)
  \/ \E p \in DOMAIN pollers, outcome \in PollOutcomes : poll_Response(p, outcome)
  \/ \E p \in DOMAIN pollers : poll_Mark(p)
  \/ \E p \in DOMAIN pollers : poll_Wake(p)
  \/ \E id \in OneId : DeletePeer(id)
  \/ Advance(PollLength)

SpecPoll == Init /\ [][NextPoll]_vars

\* Removal: one client peer is polled, removed by DeletePeer or evicted by
\* the collector, and registered again; nothing is sent to it.
NextRemove ==
  \/ \E t \in Tasks, id \in OneId : handleGET_Lookup(t, id)
  \/ \E t \in Tasks : handleGET_Create(t)
  \/ \E t \in Tasks : handleGET_Select(t)
  \/ \E t \in Tasks : handleGET_Reply(t)
  \/ \E t \in Tasks : handleGET_Timeout(t)
  \/ \E t \in Tasks : handleGET_Cancel(t)
  \/ \E id \in OneId : DeletePeer(id)
  \/ garbageCollectPeers
  \/ Tick

SpecRemove == Init /\ [][NextRemove]_vars

\* Sticky attributes: a client peer, which takes sticky attributes after its
\* registration, and a server peer added with sticky attributes are sent and
\* forwarded to with and without caller attributes.
NextSticky ==
  \/ \E t \in Tasks, id \in OneId : handlePOST_Lookup(t, id, TRUE)
  \/ \E t \in Tasks : handlePOST_Create(t, TRUE)
  \/ \E t \in Tasks, id \in Ghosts : AddServerPeer_Check(t, id, TRUE, StickyMap)
  \/ \E t \in Tasks : AddServerPeer_Store(t)
  \/ \E id \in OneId : SetPeerStickyAttributes(id, StickyMap)
  \/ \E t \in Tasks, id \in Ids, attributes \in {NilMap, CallerMap} :
       Send_Lookup(t, id, TRUE, attributes)
  \/ \E t \in Tasks, id \in Ids, attributes \in {NilMap, CallerMap} :
       Forward_Lookup(t, id, attributes)
  \/ \E t \in Tasks : dispatch(t)
  \/ \E t \in Tasks, ok \in BOOLEAN : dispatch_Posted(t, ok)

SpecSticky == Init /\ [][NextSticky]_vars

\* Fan-out attributes: client peers register by a push, one of them takes
\* sticky attributes, and both fan-outs are called with caller attributes.
NextAttrs ==
  \/ \E t \in Tasks, id \in Ids : handlePOST_Lookup(t, id, TRUE)
  \/ \E t \in Tasks : handlePOST_Create(t, TRUE)
  \/ \E id \in Ghosts : AddTopic(id, "t")
  \/ \E id \in OneId : SetPeerStickyAttributes(id, StickyMap)
  \/ \E t \in Tasks : FanOut_Begin(t, TRUE, CallerMap)
  \/ \E t \in Tasks, id \in Ids : FanOut_Iter(t, id)
  \/ \E t \in Tasks : FanOutSubscribers_Begin(t, TRUE, CallerMap, "t")
  \/ \E t \in Tasks, id \in Ids : FanOutSubscribers_Iter(t, id)
  \/ \E t \in Tasks : FanEnd(t)
  \/ \E d \in detached : detached_Select(d)

SpecAttrs == Init /\ [][NextAttrs]_vars

\* The sweep: a client peer registers by a push under one identity, a server
\* peer is added under another, offline until a poll of it is answered, while
\* the collector runs and time passes beyond the expiry.
NextSweep ==
  \/ \E t \in Tasks, id \in OneId : handlePOST_Lookup(t, id, TRUE)
  \/ \E t \in Tasks : handlePOST_Create(t, TRUE)
  \/ \E t \in Tasks, id \in OneGhost : AddServerPeer_Check(t, id, TRUE, NilMap)
  \/ \E t \in Tasks : AddServerPeer_Store(t)
  \/ \E p \in DOMAIN pollers : poll_Lookup(p)
  \/ \E p \in DOMAIN pollers : poll_Response(p, "204")
  \/ \E p \in DOMAIN pollers : poll_Mark(p)
  \/ garbageCollectPeers
  \/ Tick

SpecSweep == Init /\ [][NextSweep]_vars

\* Pushes: requests with an empty or a non-empty identity and a body that
\* parses or not arrive while the peer is sent to and given topics.
NextPush ==
  \/ \E t \in Tasks, id \in {0} \cup OneId, parses \in BOOLEAN : handlePOST_Lookup(t, id, parses)
  \/ \E t \in Tasks, parses \in BOOLEAN : handlePOST_Create(t, parses)
  \/ \E t \in Tasks, id \in OneId : Send_Lookup(t, id, TRUE, CallerMap)
  \/ \E t \in Tasks : dispatch(t)
  \/ \E id \in OneId : AddTopic(id, "t")

SpecPush == Init /\ [][NextPush]_vars

\* Re-registration: a server peer is added, removed and added again under
\* one identity while its polls are answered; the calls of AddServerPeer
\* follow one another (none starts while another is about to store).
NextReAdd ==
  \/ \E t \in Tasks, id \in OneId : Storing = {} /\ AddServerPeer_Check(t, id, TRUE, NilMap)
  \/ \E t \in Tasks : AddServerPeer_Store(t)
  \/ \E p \in DOMAIN pollers : poll_Lookup(p)
  \/ \E p \in DOMAIN pollers, outcome \in {"204", "transport"} : poll_Response(p, outcome)
  \/ \E p \in DOMAIN pollers : poll_Mark(p)
  \/ \E p \in DOMAIN pollers : poll_Wake(p)
  \/ \E id \in OneId : DeletePeer(id)
  \/ Advance(PollLength)

SpecReAdd == Init /\ [][NextReAdd]_vars

\* Poll routines under fair scheduling: a server peer is added, removed and
\* added again under one identity; every routine that can take a step
\* eventually takes it (every goroutine is scheduled and every request is
\* answered), while the calls of AddServerPeer and DeletePeer come as the
\* caller pleases.
PollStep(p) ==
  /\ p \in DOMAIN pollers
  /\ \/ poll_Lookup(p)
     \/ poll_Response(p, "204")
     \/ poll_Mark(p)

NextExit ==
  \/ \E t \in Tasks, id \in OneId : AddServerPeer_Check(t, id, TRUE, NilMap)
  \/ \E t \in Tasks : AddServerPeer_Store(t)
  \/ \E id \in OneId : DeletePeer(id)
  \/ \E p \in 1..MaxPollers : PollStep(p)

SpecExit ==
  /\ Init
  /\ [][NextExit]_vars
  /\ \A p \in 1..MaxPollers : WF_vars(PollStep(p))

\* Poll cycles: one server peer is added once (the calls of AddServerPeer
\* follow one another, so the calls after the first are rejected) and its one
\* poll routine meets every outcome of a poll while the retry delay passes.
NextCycle ==
  \/ \E t \in Tasks, id \in OneId : Storing = {} /\ AddServerPeer_Check(t, id, TRUE, NilMap)
  \/ \E t \in Tasks : AddServerPeer_Store(t)
  \/ \E p \in DOMAIN pollers : poll_Lookup(p)
  \/ \E p \in DOMAIN pollers, outcome \in PollOutcomes : poll_Response(p, outcome)
  \/ \E p \in DOMAIN pollers : poll_Mark(p)
  \/ \E p \in DOMAIN pollers : poll_Wake(p)
  \/ Advance(MaxTime)

SpecCycle == Init /\ [][NextCycle]_vars

\* Waits: a poll routine in its request or its sleep and sends that wait for
\* a push or for room in a full queue, until the deadline.  The calls of Send
\* follow one another.
NextLock ==
  \/ \E t \in Tasks, id \in OneId : handlePOST_Lookup(t, id, TRUE)
  \/ \E t \in Tasks : handlePOST_Create(t, TRUE)
  \/ \E t \in Tasks, id \in OneGhost : Storing = {} /\ AddServerPeer_Check(t, id, TRUE, NilMap)
  \/ \E t \in Tasks : AddServerPeer_Store(t)
  \/ \E p \in DOMAIN pollers : poll_Lookup(p)
  \/ \E p \in DOMAIN pollers : poll_Response(p, "transport")
  \/ \E p \in DOMAIN pollers : poll_Mark(p)
  \/ \E p \in DOMAIN pollers : poll_Wake(p)
  \/ \E t \in Tasks, id \in Ids :
       Sending = {} /\ Send_Lookup(t, id, TRUE, CallerMap)
  \/ \E t \in Tasks : dispatch(t)
  \/ \E t \in Tasks, ok \in BOOLEAN : dispatch_Posted(t, ok)
  \/ \E t \in Tasks : dispatch_Timeout(t)
  \/ Advance(Deadline)

SpecLock == Init /\ [][NextLock]_vars

\* Closing: polls register a client peer and wait on its queue while
\* DeletePeer and the collector remove it, in every order, up to the point
\* where a poll the close has woken would reply.
NextClose ==
  \/ \E t \in Tasks, id \in OneId : handleGET_Lookup(t, id)
  \/ \E t \in Tasks : handleGET_Create(t)
  \/ \E t \in Tasks : handleGET_Select(t)
  \/ \E id \in OneId : DeletePeer(id)
  \/ garbageCollectPeers
  \/ Tick

SpecClose == Init /\ [][NextClose]_vars

\* Switch: an identity added as a server peer is removed and registered again
\* by a push while its poll routine runs.  The registrations follow one
\* another.
NextSwitch ==
  \/ \E t \in Tasks, id \in OneId : Creating = {} /\ AddServerPeer_Check(t, id, TRUE, NilMap)
  \/ \E t \in Tasks : AddServerPeer_Store(t)
  \/ \E p \in DOMAIN pollers : poll_Lookup(p)
  \/ \E p \in DOMAIN pollers, outcome \in {"204", "badurl"} : poll_Response(p, outcome)
  \/ \E p \in DOMAIN pollers : poll_Mark(p)
  \/ \E p \in DOMAIN pollers : poll_Wake(p)
  \/ \E id \in OneId : DeletePeer(id)
  \/ \E t \in Tasks, id \in OneId : Creating = {} /\ handlePOST_Lookup(t, id, TRUE)
  \/ \E t \in Tasks : handlePOST_Create(t, TRUE)
  \/ Advance(PollLength)

SpecSwitch == Init /\ [][NextSwitch]_vars

\* Delivery: concurrent polls of one identity receive what sends put into its
\* queue, and time out, are cancelled or are woken by DeletePeer.
NextOnce ==
  \/ \E t \in Tasks, id \in OneId : handleGET_Lookup(t, id)
  \/ \E t \in Tasks : handleGET_Create(t)
  \/ \E t \in Tasks : handleGET_Select(t)
  \/ \E t \in Tasks : handleGET_Reply(t)
  \/ \E t \in Tasks : handleGET_Timeout(t)
  \/ \E t \in Tasks : handleGET_Cancel(t)
  \/ \E t \in Tasks, id \in OneId : Send_Lookup(t, id, TRUE, CallerMap)
  \/ \E t \in Tasks : dispatch(t)
  \/ \E t \in Tasks : dispatch_Sent(t)
  \/ \E t \in Tasks : dispatch_Panic(t)
  \/ \E id \in OneId : DeletePeer(id)
  \/ Advance(PollLength)

SpecOnce == Init /\ [][NextOnce]_vars

\* Up and down: polls that register one after the other bring a client peer
\* into the registry, and DeletePeer and the collector take it out.
NextUpDown ==
  \/ \E t \in Tasks, id \in OneId : Creating = {} /\ handleGET_Lookup(t, id)
  \/ \E t \in Tasks : handleGET_Create(t)
  \/ \E t \in Tasks : handleGET_Select(t)
  \/ \E t \in Tasks : handleGET_Timeout(t)
  \/ \E id \in OneId : DeletePeer(id)
  \/ garbageCollectPeers
  \/ Tick

SpecUpDown == Init /\ [][NextUpDown]_vars

\* ------------------------------------------------------- registration claims
\* The identities whose up callback the last step launched from a handler.
Registered(e) == {id \in Ids : e.op \in {"GET", "POST"} /\ Count(e.cbs, Up(id)) > 0}

\* C1: a poll or push registers its identity (stores a new client Peer and
\* launches the up callback) only when the identity has no entry, so that
\* concurrent first requests create one Peer and launch one up callback.
C1_RegistersOnce ==
  [][\A id \in Registered(last') : peers[id] = 0]_vars

\* C2: AddServerPeer succeeds (stores its Peer and launches a poll routine)
\* only when the identity has no entry; an identity that is registered is
\* left with the Peer it has.
C2_AddServerPeerRejected ==
  [][\A id \in Ids :
       last'.op = "AddServerPeer" /\ last'.res = "ok" /\ last'.id = id => peers[id] = 0]_vars

\* ------------------------------------------------------- delivery-queue claims
\* The client Peer objects in use.
Inbound == {o \in Slots : heap[o].UUID # 0 /\ ~heap[o].IsServer}

NoDuplicates(seq) == \A i, j \in DOMAIN seq : seq[i] = seq[j] => i = j

\* A step that completes a send or forward of m to the Peer object o with
\* success: the select took the send case at once, or a receive freed a slot
\* for the blocked sender.
Acked(o, m) ==
  \E t \in Tasks :
    /\ tasks[t].peer = o
    /\ tasks[t].op \in {"Send", "Forward"}
    /\ \/ tasks[t].pc = "dispatch" /\ tasks'[t].pc = "idle"
          /\ last'.res = "ok" /\ last'.msg = m
       \/ tasks[t].pc = "blocked" /\ tasks'[t].pc = "sent" /\ tasks[t].msg = m

InFlight == {last'.msg} \cup {tasks[t].msg : t \in Tasks}

\* The queue of o holds what was put into it and not yet received, in order.
QueueIsFifo(o) ==
  /\ enqueued[o] = delivered[o] \o heap[o].Ch.buf
  /\ NoDuplicates(enqueued[o])

\* C3: the messages polls have received from a client peer's queue, followed
\* by the messages still buffered in it, are exactly the messages that
\* successful sends and forwards put into it, in the order they were put and
\* each once: every successful send or forward appends its message behind
\* the earlier ones and nothing else enters the queue, and a poll that has
\* received a message replies 200 with that message.
C3_Fifo ==
  /\ [](\A o \in Inbound : QueueIsFifo(o))
  /\ [](\A t \in Tasks : tasks[t].op = "GET" /\ tasks[t].pc = "got" =>
          Count(delivered[tasks[t].peer], tasks[t].msg) = 1)
  /\ [][\A o \in Inbound : o \in Live' =>
          IF \E m \in InFlight : Acked(o, m)
            THEN \E m \in InFlight : Acked(o, m) /\ enqueued'[o] = Append(enqueued[o], m)
            ELSE enqueued'[o] = enqueued[o]]_vars
  /\ [][\A t \in Tasks : tasks[t].op = "GET" /\ tasks[t].pc = "got" /\ tasks'[t].pc = "idle" =>
          last'.res = "200" /\ last'.msg = tasks[t].msg]_vars

\* As many sends as the queue holds were polled back, oldest first.
C3_Witness ==
  /\ last.op = "GET" /\ last.res = "200"
  /\ \E o \in Inbound :
       /\ Len(delivered[o]) = OutboundBufferSize
       /\ heap[o].Ch.buf = <<>>
       /\ last.msg = delivered[o][OutboundBufferSize]
       /\ \A i \in DOMAIN delivered[o] : delivered[o][i].MessageID = i

\* ------------------------------------------------------- expiry claims
\* C4: a pass of the garbage collector removes every client peer whose
\* LastConsumed lies more than PeerExpiry back and launches the down callback
\* once for each, and removes no other peer; a poll for an identity that has
\* no entry takes the registration branch, which stores a new Peer (online,
\* empty queue), launches the up callback once and replies 201.
C4_Expiry ==
  /\ [][last'.op = "gc" =>
          \A id \in Ids :
            IF /\ peers[id] # 0
               /\ ~heap[peers[id]].IsServer
               /\ now - heap[peers[id]].LastConsumed > PeerExpiry
              THEN peers'[id] = 0 /\ Count(last'.cbs, Down(id)) = 1
              ELSE peers'[id] = peers[id] /\ Count(last'.cbs, Down(id)) = 0]_vars
  /\ [][\A t \in Tasks :
          tasks[t].op = "idle" /\ tasks'[t].op = "GET" /\ peers[tasks'[t].uuid] = 0 =>
            tasks'[t].pc = "create"]_vars
  /\ [][\A t \in Tasks :
          tasks[t].op = "GET" /\ tasks[t].pc = "create" /\ tasks'[t].pc = "idle" =>
            /\ last'.res = "201"
            /\ last'.cbs = <<Up(tasks[t].uuid)>>
            /\ peers'[tasks[t].uuid] \notin {0, peers[tasks[t].uuid]}
            /\ heap'[peers'[tasks[t].uuid]] =
                 NewPeer(tasks[t].uuid, "", MakeCh, TRUE, now, FALSE, NilMap)]_vars

\* A poll has just registered an identity anew while an earlier poll of that
\* identity still holds the Peer the collector evicted (its queue is closed).
C4_Witness ==
  /\ last.op = "GET" /\ last.res = "201"
  /\ \E t \in Tasks :
       /\ tasks[t].op = "GET" /\ tasks[t].uuid = last.id
       /\ tasks[t].peer # 0 /\ tasks[t].peer # peers[last.id]
       /\ heap[tasks[t].peer].Ch.closed

\* ------------------------------------------------------- not-found claims
ByIdentity == {"Send", "Forward", "DeletePeer", "AddTopic", "RemoveTopic", "SetTopics",
               "GetTopics", "GetPeerIP", "SetPeerStickyAttributes"}

\* The step is the call of op itself, not a later step of a call under way.
Calls(op) == last'.op = op /\ \A t \in Tasks : tasks[t].op = op => tasks'[t] = tasks[t]

Pushes(e, o) == {i \in DOMAIN e.net : e.net[i].kind = "POST" /\ e.net[i].peer = o}

\* The enqueue goroutines of the fan-out kind for the Peer object o.
Enqueuers(D, o, kind) == {d \in D : d.peer = o /\ d.kind = kind}

\* C5: FanOut handles every registry entry once: for an offline peer it does
\* nothing, to an online server peer it issues one push request, for an online
\* client peer it launches one enqueue, and that enqueue puts its message into
\* the peer's queue whatever the queue holds and whether or not a poll waits.
C5_FanOutDelivers ==
  /\ [][\A t \in Tasks, id \in Ids :
          /\ tasks[t].op = "FanOut" /\ tasks[t].pc = "loop"
          /\ id \in tasks[t].todo /\ tasks'[t].todo = tasks[t].todo \ {id}
          => LET o == peers[id]
                 launched == Enqueuers(detached', o, "FanOut") \ Enqueuers(detached, o, "FanOut")
             IN IF ~heap[o].Online
                  THEN Pushes(last', o) = {} /\ launched = {}
                ELSE IF heap[o].IsServer
                  THEN Cardinality(Pushes(last', o)) = 1 /\ launched = {}
                ELSE Pushes(last', o) = {} /\ Cardinality(launched) = 1]_vars
  /\ [][\A d \in detached :
          d.kind = "FanOut" /\ d \notin detached' /\ d.peer \in Live'
          => enqueued'[d.peer] = Append(enqueued[d.peer], d.msg)]_vars

\* The step is the iteration of t's fan-out loop for the entry id.
Iterates(t, id) ==
  /\ tasks[t].pc = "loop"
  /\ id \in tasks[t].todo
  /\ \/ tasks'[t].todo = tasks[t].todo \ {id}
     \/ tasks'[t].pc = "idle" /\ last'.id = id

\* C6: FanOutSubscribers handles every registry entry once: a peer that is
\* offline or whose topics do not contain the topic gets nothing, an online
\* peer whose topics contain it (once or several times) gets exactly one push
\* request or one enqueue; the call returns when every entry was handled.
C6_Subscribers ==
  /\ [][\A t \in Tasks, id \in Ids :
          tasks[t].op = "FanOutSubscribers" /\ Iterates(t, id)
          => LET o == peers[id]
                 launched == Enqueuers(detached', o, "FanOutSubscribers")
                               \ Enqueuers(detached, o, "FanOutSubscribers")
                 dispatched == Cardinality(Pushes(last', o)) + Cardinality(launched)
             IN IF heap[o].Online /\ Subscribed(heap[o].Topics, tasks[t].topic)
                  THEN dispatched = 1
                  ELSE dispatched = 0]_vars
  /\ [][\A t \in Tasks :
          tasks[t].op = "FanOutSubscribers" /\ tasks[t].pc = "loop" /\ tasks'[t].pc = "idle"
          => tasks[t].todo = {} /\ last'.res = "ok"]_vars

\* ------------------------------------------------------- direct-send claims
\* The step is t's select on the channel send.
Dispatches(t) ==
  tasks[t].op \in {"Send", "Forward"} /\ tasks[t].pc = "dispatch" /\ tasks'[t].pc # "dispatch"

\* C7: when Send comes to dispatch its message to a client peer on whose
\* queue a poll is suspended, the send succeeds and hands the message to a
\* suspended poll, and a poll that was handed a message replies 200 with it
\* (whatever its timer): the message does not wait for the poll's timeout.
C7_Handoff ==
  /\ [][\A t \in Tasks :
          tasks[t].op = "Send" /\ Dispatches(t) /\ Receivers(tasks[t].peer) # {}
          => /\ last'.op = "Send" /\ last'.res = "ok"
             /\ \E r \in Receivers(tasks[t].peer) :
                  tasks'[r].pc = "got" /\ tasks'[r].msg = last'.msg
             /\ last'.msg.MessageID = tasks[t].msg.MessageID]_vars
  /\ [][\A r \in Tasks :
          tasks[r].op = "GET" /\ tasks[r].pc = "got" /\ tasks'[r] # tasks[r]
          => last'.op = "GET" /\ last'.res = "200" /\ last'.msg = tasks[r].msg]_vars

\* The queue of the Peer object o is full and no poll is suspended on it.
Full(o) ==
  /\ ~heap[o].IsServer
  /\ Len(heap[o].Ch.buf) = OutboundBufferSize
  /\ Receivers(o) = {}

\* C9: a Send or Forward that finds the client peer's queue full suspends; it
\* ends either when a receive frees a slot, with its message put into the
\* queue and success, or when its deadline has passed, with "deadline
\* exceeded" and the queue as it was.
C9_Deadline ==
  /\ [][\A t \in Tasks :
          Dispatches(t) /\ Full(tasks[t].peer)
          => tasks'[t].pc = "blocked" /\ tasks'[t].timer = now + Deadline]_vars
  /\ [][\A t \in Tasks :
          tasks[t].pc = "blocked" /\ tasks'[t] # tasks[t]
          => LET o == tasks[t].peer
             IN \/ /\ tasks'[t].pc = "sent"
                   /\ now <= tasks[t].timer
                   /\ enqueued'[o] = Append(enqueued[o], tasks[t].msg)
                \/ /\ tasks'[t].pc = "idle"
                   /\ now >= tasks[t].timer
                   /\ last'.res = "deadline exceeded"
                   /\ enqueued'[o] = enqueued[o]
                   /\ heap'[o].Ch = heap[o].Ch]_vars
  /\ [][\A t \in Tasks :
          tasks[t].pc = "sent" /\ tasks'[t] # tasks[t] => last'.res = "ok"]_vars

\* ------------------------------------------------------- poll routine claims
\* C10: when a poll routine marks its server peer online or offline, it
\* launches one callback if the Online flag changes (up when it becomes true,
\* down when it becomes false) and none if the flag stays as it was.
C10_OneCallbackPerChange ==
  [][\A p \in DOMAIN pollers :
       pollers[p].pc = "mark" /\ pollers'[p] # pollers[p] /\ pollers[p].peer \in Live'
       => LET o == pollers[p].peer
          IN IF heap'[o].Online = heap[o].Online THEN last'.cbs = <<>>
             ELSE IF heap'[o].Online THEN last'.cbs = <<Up(heap[o].UUID)>>
             ELSE last'.cbs = <<Down(heap[o].UUID)>>]_vars

\* The step is p's markOffline after a poll that returned an error.
MarksFailure(p) ==
  pollers[p].pc = "mark" /\ pollers[p].err /\ pollers'[p] # pollers[p]

\* C11: after a poll of a server peer has failed, the peer is offline, the
\* down callback is launched once if the peer was online and not at all if it
\* was offline already, and the routine sleeps: it leaves its sleep, and so
\* issues its next request, only when PollLength has passed since the failure.
C11_OfflineThenDelay ==
  /\ [][\A p \in DOMAIN pollers :
          MarksFailure(p) /\ pollers[p].peer \in Live'
          => LET o == pollers[p].peer
             IN /\ ~heap'[o].Online
                /\ last'.cbs = IF heap[o].Online THEN <<Down(heap[o].UUID)>> ELSE <<>>
                /\ pollers'[p].pc = "sleep"
                /\ pollers'[p].timer = now + PollLength]_vars
  /\ [][\A p \in DOMAIN pollers :
          pollers[p].pc = "sleep" /\ pollers'[p].pc # "sleep" => now >= pollers[p].timer]_vars
  /\ [][\A p \in DOMAIN pollers :
          pollers[p].pc # "request" /\ pollers'[p].pc = "request" => pollers[p].pc = "top"]_vars

\* ------------------------------------------------------- removal claims
\* C12: DeletePeer and the collector's eviction of a client peer delete its
\* entry and close its channel, and no poll stays suspended on that channel;
\* a poll replies 200 only with a message that was put into the queue, so a
\* poll the removal has woken does not reply 200.
C12_RemovalUnblocks ==
  /\ [][\A id \in Ids :
          peers[id] # 0 /\ ~heap[peers[id]].IsServer /\ peers'[id] = 0
          => LET o == peers[id]
             IN /\ o \in Live' => heap'[o].Ch.closed
                /\ \A t \in Receivers(o) : tasks'[t].pc # "waiting"]_vars
  /\ [][\A t \in Tasks :
          tasks[t].op = "GET" /\ tasks[t].peer # 0 /\ tasks'[t].op = "idle" /\ last'.res = "200"
          => Count(enqueued[tasks[t].peer], last'.msg) = 1]_vars

\* ------------------------------------------------------- attribute claims
\* The caller's attributes overridden by the sticky attributes, key by key.
Merged(attrs, sticky) ==
  [k \in Keys |-> IF sticky.kv[k] # "" THEN sticky.kv[k] ELSE attrs.kv[k]]

\* C13: when Send or Forward dispatches its message to a registered peer (a
\* server peer, or a client peer whose queue is open), with the caller's
\* attributes nil or not, the step does not panic and the message it pushes or
\* puts into the queue carries, for every key, the peer's sticky value if
\* there is one and the caller's value otherwise.
C13_StickyMerge ==
  [][\A t \in Tasks :
       Dispatches(t) /\ (heap[tasks[t].peer].IsServer \/ ~heap[tasks[t].peer].Ch.closed)
       => LET m == IF tasks'[t].op = "idle" THEN last'.msg ELSE tasks'[t].msg
          IN /\ last'.res # "panic"
             /\ m.MessageID = tasks[t].msg.MessageID
             /\ m.Attributes.kv =
                  Merged(tasks[t].msg.Attributes, heap[tasks[t].peer].StickyAttrbitues)]_vars

\* C14: an iteration of a fan-out loop leaves the attribute map the caller
\* supplied as it was, and the message it dispatches carries the attributes
\* of that map overridden by the sticky attributes of the peer of this
\* iteration; so no message carries a sticky attribute of another peer.
C14_OwnCopy ==
  [][\A t \in Tasks, id \in Ids :
       tasks[t].op \in {"FanOut", "FanOutSubscribers"} /\ Iterates(t, id)
       => /\ tasks'[t].op # "idle" => tasks'[t].arg = tasks[t].arg
          /\ last'.msg # NoMsg =>
               last'.msg.Attributes.kv = Merged(tasks[t].arg, heap[peers[id]].StickyAttrbitues)]_vars

\* ------------------------------------------------------- best-effort claims
FanOuts == {"FanOut", "FanOutSubscribers"}

\* C15: a fan-out call whose payload has marshalled ends only by returning
\* success, and only when every entry of the registry has had its iteration;
\* a push that has returned, with an error or without, and an enqueue that is
\* given up leave the entries still to be visited as they were.
C15_BestEffort ==
  /\ [][\A t \in Tasks :
          tasks[t].op \in FanOuts /\ tasks'[t].op = "idle"
          => tasks[t].pc = "loop" /\ tasks[t].todo = {} /\ last'.res = "ok"]_vars
  /\ [][\A t \in Tasks :
          tasks[t].op \in FanOuts /\ tasks[t].pc = "pushing" /\ tasks'[t] # tasks[t]
          => tasks'[t] = [tasks[t] EXCEPT !.pc = "loop"]]_vars
  /\ [][\A d \in detached :
          d \notin detached' => \A t \in Tasks : tasks[t].op \in FanOuts => tasks'[t] = tasks[t]]_vars

\* C16: a fan-out call never waits for a client peer to consume (it never
\* blocks on a channel send), and while it waits for the answer to its push
\* to a server peer no online peer is still waiting for its own dispatch.
C16_NoStall ==
  \A t \in Tasks :
    tasks[t].op \in FanOuts
    => /\ tasks[t].pc # "blocked"
       /\ tasks[t].pc = "pushing" => \A id \in tasks[t].todo : ~heap[peers[id]].Online

\* ------------------------------------------------------- sweep claims
\* C17: a pass of the garbage collector leaves every server peer as it is
\* (entry, Online flag and all other fields) and launches no callback for it,
\* however long ago the peer was added or went offline; it removes the client
\* peers whose LastConsumed lies more than PeerExpiry back, and leaves the
\* other client peers as they are, launching no callback for them.
C17_SweepsClientsOnly ==
  [][last'.op = "gc" =>
       \A id \in Ids :
         peers[id] # 0 =>
           LET o == peers[id]
               kept == /\ peers'[id] = o
                       /\ heap'[o] = heap[o]
                       /\ Count(last'.cbs, Up(id)) = 0
                       /\ Count(last'.cbs, Down(id)) = 0
           IN IF heap[o].IsServer THEN kept
              ELSE IF now - heap[o].LastConsumed > PeerExpiry THEN peers'[id] = 0
              ELSE kept]_vars

\* The collector has just evicted a client peer while a server peer that was
\* added longer ago than PeerExpiry, and is offline, stays registered.
C17_Witness ==
  /\ last.op = "gc" /\ last.cbs # <<>>
  /\ now > PeerExpiry
  /\ \E id \in Ids : /\ peers[id] # 0
                     /\ heap[peers[id]].IsServer
                     /\ ~heap[peers[id]].Online
                     /\ now - heap[peers[id]].LastConsumed > PeerExpiry

\* ------------------------------------------------------- push claims
\* The receive callbacks among the callbacks a step launched.
Receives(e) == {i \in DOMAIN e.cbs : e.cbs[i][1] = "recv"}

\* C18: a push with a non-empty identity ends by replying 200 with the
\* receive callback launched once, for that identity and the message of the
\* body, or by replying 400 with no receive callback launched.  It suspends
\* no goroutine and takes nothing from and puts nothing into any queue; and
\* when it found the identity registered it leaves the registry and every
\* Peer (queue, LastConsumed, topics, Online) as they were.
C18_Push ==
  [][last'.op = "POST" /\ last'.id # 0 =>
       /\ \/ /\ last'.res = "200"
             /\ Cardinality(Receives(last')) = 1
             /\ Count(last'.cbs, Recv(last'.id, last'.msg)) = 1
          \/ /\ last'.res = "400"
             /\ Receives(last') = {}
       /\ \A t \in Tasks : tasks'[t] = tasks[t] \/ (tasks[t].op = "POST" /\ tasks'[t] = IdleTask)
       /\ \A o \in Live \cap Live' :
            o # 0 => /\ heap'[o] = heap[o]
                     /\ enqueued'[o] = enqueued[o]
                     /\ delivered'[o] = delivered[o]
       /\ peers[last'.id] # 0 /\ tasks' = tasks
            => UNCHANGED <<peers, heap, enqueued, delivered, pollers, detached, nextMsg>>]_vars

\* A push for a registered peer that has topics and a message in its queue
\* was answered 200.
C18_Witness ==
  /\ last.op = "POST" /\ last.res = "200" /\ last.cbs = <<Recv(last.id, last.msg)>>
  /\ peers[last.id] # 0
  /\ heap[peers[last.id]].Ch.buf # <<>>
  /\ heap[peers[last.id]].Topics # <<>>

\* ------------------------------------------------------- poll claims
\* The step ends the poll t of a registered peer.
EndsPoll(t) ==
  tasks[t].op = "GET" /\ tasks[t].pc \in {"select", "waiting", "got"} /\ tasks'[t].op = "idle"

\* C19: a poll of a registered client peer that finds its queue empty
\* suspends with a timer of PollLength and not otherwise; it ends in one of
\* three ways: it has received a message that was put into the queue and
\* replies 200 with it, its timer is due and it replies 204, or it is
\* cancelled and replies nothing.  The first two set LastConsumed to now;
\* the third leaves the Peer and its queue as they were.
C19_ThreeWayRace ==
  /\ [][\A t \in Tasks :
          tasks[t].op = "GET" /\ tasks[t].pc = "select" /\ tasks'[t].pc = "waiting"
          => heap[tasks[t].peer].Ch.buf = <<>> /\ tasks'[t].timer = now + PollLength]_vars
  /\ [][\A t \in Tasks :
          EndsPoll(t)
          => LET o == tasks[t].peer
             IN \/ /\ last'.res = "200"
                   /\ tasks[t].pc = "got"
                   /\ last'.msg = tasks[t].msg
                   /\ Count(enqueued[o], last'.msg) = 1
                   /\ Count(delivered[o], last'.msg) = 1
                   /\ o \in Live' => heap'[o] = [heap[o] EXCEPT !.LastConsumed = now]
                \/ /\ last'.res = "204"
                   /\ tasks[t].pc = "waiting" /\ now >= tasks[t].timer
                   /\ o \in Live' => /\ heap'[o] = [heap[o] EXCEPT !.LastConsumed = now]
                                      /\ delivered'[o] = delivered[o]
                \/ /\ last'.res = "cancelled"
                   /\ tasks[t].pc # "got"
                   /\ o \in Live' => /\ heap'[o] = heap[o]
                                      /\ delivered'[o] = delivered[o]]_vars

\* The poll routines of the identity id that have not returned and have
\* taken the Peer the registry holds for id as the Peer to poll.
Running(id) ==
  {p \in DOMAIN pollers : /\ pollers[p].uuid = id
                          /\ pollers[p].pc # "exited"
                          /\ pollers[p].peer = peers[id]}

\* C20: at any time at most one poll routine polls the Peer registered under
\* an identity: a routine launched for an earlier registration of the identity
\* may finish the request it has in flight, but does not go on to poll the
\* Peer of a later registration.
C20_OnePoller == \A id \in Ids : peers[id] # 0 => Cardinality(Running(id)) <= 1

\* ------------------------------------------------------- termination claims
\* The p-th poll routine was launched and has returned.
Exited(p) == p \in DOMAIN pollers /\ pollers[p].pc = "exited"

\* The p-th poll routine was launched and its identity has no registry entry.
Orphan(p) == p \in DOMAIN pollers /\ peers[pollers[p].uuid] = 0

\* C21: a poll routine whose identity has no registry entry eventually
\* returns; a routine returns only at a lookup that finds no entry for its
\* identity, and a routine that has returned takes no further step.
C21_PollerExits ==
  /\ \A p \in 1..MaxPollers :
       [](Orphan(p) => <>Exited(p))
  /\ [][\A p \in DOMAIN pollers :
          pollers[p].pc # "exited" /\ pollers'[p].pc = "exited"
          => pollers[p].pc = "top" /\ peers[pollers[p].uuid] = 0]_vars
  /\ [][\A p \in DOMAIN pollers :
          pollers[p].pc = "exited" => pollers'[p] = pollers[p]]_vars

\* ------------------------------------------------------- poll cycle claims
\* The step ends a poll of the routine p: Peer.poll returns.
EndsCycle(p) ==
  \/ pollers[p].pc = "mark" /\ pollers'[p] # pollers[p]
  \/ pollers[p].pc = "request" /\ pollers'[p].pc = "sleep"

\* C22: when a poll of a server peer returns an error the peer is offline and
\* the routine sleeps PollLength before its next request; when it returns
\* without error the peer is online and the routine goes to its next lookup at
\* once.  The receive callback is launched once by a poll answered 200 with
\* a Message and by no other poll.
C22_CycleOutcome ==
  /\ [][\A p \in DOMAIN pollers :
          EndsCycle(p)
          => LET o == pollers[p].peer
             IN IF pollers'[p].pc = "sleep"
                  THEN /\ ~heap'[o].Online
                       /\ pollers'[p].timer = now + PollLength
                  ELSE /\ heap'[o].Online
                       /\ pollers'[p].pc = "top"]_vars
  /\ [][\A p \in DOMAIN pollers :
          pollers[p].pc = "request" /\ pollers'[p] # pollers[p]
          => LET o == pollers[p].peer
             IN /\ pollers'[p].pc = "sleep" \/ pollers'[p].err
                  <=> last'.res \notin {"200", "201", "204"}
                /\ last'.cbs = IF last'.res = "200"
                                 THEN <<Recv(heap[o].UUID, last'.msg)>> ELSE <<>>]_vars

\* C23: on the channel of a client Peer at most one poll request is suspended
\* in its select at any time.
C23_OneConsumer ==
  \A o \in Inbound : Cardinality(Receivers(o)) <= 1

\* ------------------------------------------------------- locking claims
\* Poll routines waiting for the answer to their request or sleeping after an
\* error.
PollWaits == {p \in DOMAIN pollers : pollers[p].pc \in {"request", "sleep"}}

\* Sends and forwards waiting for their push to return or for room in the
\* queue.
SendWaits ==
  {t \in Tasks : tasks[t].op \in {"Send", "Forward"} /\ tasks[t].pc \in {"posting", "blocked"}}

\* Fan-outs inside their loop.
FanOutLoops == {t \in Tasks : tasks[t].pc \in {"loop", "pushing"}}

\* C24: while a poll routine waits in its request or its sleep, or a send or
\* forward waits for its push or for room in the queue, and no fan-out is in
\* its loop, the operations on the registry can take the lock: removing a
\* peer, reading and setting topics, the collector's sweep, and the lookup of
\* a new poll request.
C24_WaitsUnlocked ==
  (PollWaits # {} \/ SendWaits # {}) /\ FanOutLoops = {}
  => \A id \in Ids :
       /\ ENABLED DeletePeer(id)
       /\ ENABLED GetTopics(id)
       /\ ENABLED SetTopics(id, <<>>)
       /\ ENABLED garbageCollectPeers
       /\ \A t \in Tasks : Starts(t) /\ (peers[id] # 0 \/ CanAllocate)
                            => ENABLED handleGET_Lookup(t, id)

C24_Witness ==
  /\ \E p \in PollWaits : pollers[p].pc = "sleep"
  /\ \E t \in SendWaits : tasks[t].pc = "blocked"
  /\ FanOutLoops = {}

\* ------------------------------------------------------- topic claims
\* C25: RemoveTopic on a registered peer returns no error and leaves the peer
\* with its topics less every occurrence of the topic removed, so that the
\* peer is not subscribed to it afterwards and its other topics are kept.
C25_RemoveTopic ==
  [][\A id \in Ids :
       last'.op = "RemoveTopic" /\ last'.id = id /\ peers[id] # 0
       => /\ last'.res = "ok"
          /\ \E topic \in Topic :
               /\ ~Subscribed(heap'[peers[id]].Topics, topic)
               /\ heap'[peers[id]].Topics
                    = SelectSeq(heap[peers[id]].Topics, LAMBDA x : x # topic)]_vars

\* ------------------------------------------------------- closed queue claims
\* C26: no send is made on a closed channel: a Send or Forward that comes to
\* its select, and a goroutine a fan-out launched that comes to its select,
\* finds the channel of its Peer open, and no channel is closed while a sender
\* is blocked on it.
C26_NoClosedEnqueue ==
  [][/\ \A t \in Tasks :
          /\ tasks[t].op \in {"Send", "Forward"} /\ tasks[t].pc = "dispatch"
             /\ tasks'[t] # tasks[t]
             => ~heap[tasks[t].peer].Ch.closed
          /\ tasks[t].pc = "blocked" => tasks'[t].pc # "panic"
     /\ \A d \in detached :
          /\ d.pc = "start" /\ d \notin detached' => ~heap[d.peer].Ch.closed
          /\ d.pc = "blocked" => [d EXCEPT !.pc = "panic"] \notin detached']_vars

\* C27: the channel of a client Peer is closed once at most: DeletePeer and
\* the collector close a channel only in the step that deletes the entry of
\* its Peer, that channel is open until then, every entry of the registry has
\* an open channel or none, and DeletePeer never closes a closed channel.
C27_ClosedOnce ==
  /\ [][\A id \in Ids :
          peers[id] # 0 /\ ~heap[peers[id]].IsServer /\ peers'[id] = 0
          => ~heap[peers[id]].Ch.closed]_vars
  /\ [][\A o \in Live \cap Live' :
          o # 0 /\ ~heap[o].Ch.closed /\ heap'[o].Ch.closed
          => \E id \in Ids : peers[id] = o /\ peers'[id] = 0]_vars
  /\ [](\A id \in Ids : peers[id] # 0 => ~heap[peers[id]].Ch.closed)
  /\ [][last'.op = "DeletePeer" => last'.res # "panic"]_vars

\* A second remover has found the identity absent while a poll still holds
\* the Peer whose channel the first one closed.
C27_Witness ==
  /\ last.op = "DeletePeer" /\ last.res = "peer not found"
  /\ \E t \in Tasks : tasks[t].peer # 0 /\ heap[tasks[t].peer].Ch.closed

\* ------------------------------------------------------- peer kind claims
\* C28: a poll routine takes only a server Peer as the Peer to poll and marks
\* only a server Peer online or offline; every client Peer the registry holds
\* is online.
C28_PollsServersOnly ==
  /\ [][\A p \in DOMAIN pollers :
          pollers[p].pc = "top" /\ pollers'[p].pc = "request"
          => heap[pollers'[p].peer].IsServer]_vars
  /\ [][\A p \in DOMAIN pollers :
          pollers[p].pc = "mark" /\ pollers'[p] # pollers[p]
          => heap[pollers[p].peer].IsServer]_vars
  /\ [](\A id \in Ids :
          peers[id] # 0 /\ ~heap[peers[id]].IsServer => heap[peers[id]].Online)

\* C29: every server Peer the registry holds has no channel (Ch is nil), every
\* client Peer the registry holds has a channel that is open, and a Peer whose
\* channel is closed is held by no entry of the registry.
C29_QueueByKind ==
  /\ \A id \in Ids :
       peers[id] # 0
       => IF heap[peers[id]].IsServer
            THEN heap[peers[id]].Ch = NilCh
            ELSE ~heap[peers[id]].Ch.nil /\ ~heap[peers[id]].Ch.closed
  /\ \A o \in Live \ {0} :
       heap[o].Ch.closed => \A id \in Ids : peers[id] # o

\* The identity is registered again while a poll still holds the Peer of its
\* earlier registration, whose channel is closed.
C29_Witness ==
  \E t \in Tasks :
    /\ tasks[t].peer # 0
    /\ heap[tasks[t].peer].Ch.closed
    /\ peers[tasks[t].uuid] \notin {0, tasks[t].peer}

\* ------------------------------------------------------- delivery claims
\* The polls that have received the message m from the channel of o and have
\* not replied yet.
Holders(o, m) ==
  {t \in Tasks : tasks[t].op = "GET" /\ tasks[t].pc = "got" /\ tasks[t].peer = o
                  /\ tasks[t].msg = m}

\* C30: a message put into the queue of a client Peer is received from it
\* once at most, a message still in the buffer has not been received, a
\* message received is held by one poll at most, and a poll that replies 200
\* with a message replies the one it received.
C30_AtMostOnce ==
  /\ [](\A o \in Inbound :
          /\ NoDuplicates(delivered[o])
          /\ \A i \in DOMAIN heap[o].Ch.buf : Count(delivered[o], heap[o].Ch.buf[i]) = 0
          /\ \A i \in DOMAIN delivered[o] : Cardinality(Holders(o, delivered[o][i])) <= 1)
  /\ [][\A t \in Tasks :
          /\ tasks[t].op = "GET" /\ tasks[t].pc = "got" /\ tasks'[t].op = "idle"
          /\ last'.res = "200" /\ last'.msg # NoMsg
          => /\ last'.msg = tasks[t].msg
             /\ Count(delivered[tasks[t].peer], last'.msg) = 1
             /\ Holders(tasks[t].peer, last'.msg) = {t}]_vars

\* Two polls of one identity each hold a message they received, and one of
\* them replies.
C30_Witness ==
  /\ last.op = "GET" /\ last.res = "200" /\ last.msg # NoMsg
  /\ \E t \in Tasks : tasks[t].op = "GET" /\ tasks[t].pc = "got" /\ tasks[t].msg # NoMsg

\* ------------------------------------------------------- callback claims
\* C31: the up and down callbacks of a client identity alternate: a step
\* launches one up callback when it brings the identity into the registry and
\* none otherwise, and one down callback when it takes the identity's client
\* Peer out of the registry and none otherwise.
C31_UpDownAlternate ==
  [][\A id \in Ids :
       /\ Count(last'.cbs, Up(id)) = IF peers[id] = 0 /\ peers'[id] # 0 THEN 1 ELSE 0
       /\ Count(last'.cbs, Down(id))
            = IF peers[id] # 0 /\ ~heap[peers[id]].IsServer /\ peers'[id] = 0
                THEN 1 ELSE 0]_vars

====
